---- MODULE Spec2Model ----
(***************************************************************************)
(* Model of the hub protocol client, lambda/utils/jeedom_client0.py:       *)
(* JeedomClient with its retrying transport (_request_with_retry), the     *)
(* state fetcher (get_question), the response poster (post_event) and the  *)
(* log sink (post_log).                                                    *)
(*                                                                         *)
(* One client object is modelled.  A call of get_question or post_event    *)
(* starts with the action of that name; while the call is inside the       *)
(* retry loop (pc = "request") each HTTP attempt is one action whose       *)
(* outcome (transport exception, other exception, response) is chosen by   *)
(* the network.  The attempt that ends the loop also runs the rest of the  *)
(* calling method, up to its return.                                       *)
(***************************************************************************)
EXTENDS Integers, Sequences, FiniteSets, TLC

\* Largest MAX_RETRIES the environment is taken to configure.
MaxRetriesCfg == 3

\* Smallest configured MAX_RETRIES: int(os.environ[...]) accepts 0 and negatives.
MinRetriesCfg == 0 - 1

RetryConfigs == MinRetriesCfg..MaxRetriesCfg

\* config.MAX_RETRIES and config.RETRY_DELAY when the environment sets neither.
DefaultMaxRetries == 3

DefaultRetryDelay == 1

\* Largest RETRY_DELAY the environment is taken to configure, in seconds.
MaxDelayCfg == 2

\* Smallest one: float(os.environ[...]) accepts 0 and negatives.
MinDelayCfg == 0 - 1

DelayConfigs == MinDelayCfg..MaxDelayCfg

(***************************************************************************)
(* Python values.  Every value is a record of the same shape so that any   *)
(* two of them can be compared.  A str holds its text in s (texts the code *)
(* only passes along) or in cs (its characters, where the code inspects    *)
(* them); an f-string "Error <status>: <msg>" is a str with the status in  *)
(* code and the message in s.  A dict with the keys of the hub's question  *)
(* state is held apart, see StateObjects.                                  *)
(***************************************************************************)
PyNone == [t |-> "none", s |-> "", cs |-> <<>>, n |-> 0, b |-> FALSE, code |-> 0]

PyStr(str) == [t |-> "str", s |-> str, cs |-> <<>>, n |-> 0, b |-> FALSE, code |-> 0]

PyChars(chars) == [t |-> "str", s |-> "", cs |-> chars, n |-> 0, b |-> FALSE, code |-> 0]

PyInt(i) == [t |-> "int", s |-> "", cs |-> <<>>, n |-> i, b |-> FALSE, code |-> 0]

PyBool(v) == [t |-> "bool", s |-> "", cs |-> <<>>, n |-> 0, b |-> v, code |-> 0]

\* f"Error {status}: {error_msg}"
ErrorText(status, msg) == [t |-> "str", s |-> msg, cs |-> <<>>, n |-> 0, b |-> FALSE, code |-> status]

\* Python truthiness of a value (bool(v)).
Truthy(v) ==
    CASE v.t = "none" -> FALSE
      [] v.t = "str"  -> v.s # "" \/ v.cs # <<>> \/ v.code # 0
      [] v.t = "int"  -> v.n # 0
      [] v.t = "bool" -> v.b
      [] OTHER        -> TRUE

\* str.lower() on one character, then on a str held as characters.
LowerChar(c) ==
    CASE c = "T" -> "t" [] c = "R" -> "r" [] c = "U" -> "u" [] c = "E" -> "e"
      [] c = "Y" -> "y" [] c = "S" -> "s" [] c = "O" -> "o" [] c = "I" -> "i"
      [] c = "N" -> "n" [] c = "F" -> "f" [] c = "A" -> "a" [] c = "L" -> "l"
      [] OTHER -> c

\* str.lower() leaving every character as it is.
Lower_identity(chars) == chars

\* str.lower() on a str held as characters.
Lower(chars) == [i \in 1..Len(chars) |-> LowerChar(chars[i])]

AffirmativeTokens ==
    { <<"t","r","u","e">>, <<"1">>, <<"y","e","s">>, <<"o","u","i">> }

\* JeedomClient._string_to_bool taking a non-string by its truthiness.
StringToBool_truthy(value) ==
    IF value.t # "str" THEN Truthy(value)
    ELSE Lower(value.cs) \in AffirmativeTokens

\* JeedomClient._string_to_bool(value, default=False)
_string_to_bool(value) ==
    IF value.t = "bool" THEN value.b
    ELSE IF value.t # "str" THEN FALSE
    ELSE Lower(value.cs) \in AffirmativeTokens

(***************************************************************************)
(* Language strings: the dict handler_input carries under "_", or {} when  *)
(* there is no handler input or no language file.                          *)
(***************************************************************************)
PromptKeys ==
    { "ERROR_401", "ERROR_404", "ERROR_400", "ERROR_NETWORK", "ERROR_GENERAL",
      "ERROR_CONFIG", "ERROR_PARSE", "OKAY" }

NoStrings == [k \in {} |-> ""]

\* Keys of the language table that only the handlers read.
HandlerKeys == { "ERROR_NETWORK_REPROMPT", "FALLBACK_REPROMPT" }

LocalizedStrings ==
    [k \in PromptKeys \cup HandlerKeys |->
        CASE k = "ERROR_401"     -> "fr:ERROR_401"
          [] k = "ERROR_NETWORK_REPROMPT" -> "fr:ERROR_NETWORK_REPROMPT"
          [] k = "FALLBACK_REPROMPT" -> "fr:FALLBACK_REPROMPT"
          [] k = "ERROR_404"     -> "fr:ERROR_404"
          [] k = "ERROR_400"     -> "fr:ERROR_400"
          [] k = "ERROR_NETWORK" -> "fr:ERROR_NETWORK"
          [] k = "ERROR_GENERAL" -> "fr:ERROR_GENERAL"
          [] k = "ERROR_CONFIG"  -> "fr:ERROR_CONFIG"
          [] k = "ERROR_PARSE"   -> "fr:ERROR_PARSE"
          [] OTHER               -> "fr:OKAY"]

LanguageTables == { NoStrings, LocalizedStrings }

(***************************************************************************)
(* The hub's answers.                                                      *)
(***************************************************************************)
StatusCodes == { 200, 400, 401, 404, 500 }

\* The exceptions the retry loop catches (line 159): urllib3's MaxRetryError and
\* TimeoutError, both of them subclasses of the HTTPError the clause also names.
TransportExceptions == { "MaxRetryError", "TimeoutError" }

\* Any other exception of the HTTP call (json.dumps of the body, a bad URL, ...).
OtherExceptions == { "TypeError" }

\* A field of the hub's state object that is not there.
Absent == [t |-> "absent", s |-> "", cs |-> <<>>, n |-> 0, b |-> FALSE, code |-> 0]

EventValues == { Absent, PyNone, PyStr("42"), PyStr("") }

TextValues == { Absent, PyStr("Turn on the light?") }

SuppressValues ==
    { Absent, PyChars(<<"n","o">>), PyChars(<<"Y","e","s">>), PyBool(TRUE) }

SerialValues == { Absent, PyStr("G090XG") }

TextBrutValues == { Absent, PyStr("allume la lumiere") }

\* The JSON objects the hub may send as the question state.
StateObjects ==
    [ event : EventValues, text : TextValues, suppress_confirmation : SuppressValues,
      deviceSerialNumber : SerialValues, textBrut : TextBrutValues ]

EmptyObject ==
    [ event |-> Absent, text |-> Absent, suppress_confirmation |-> Absent,
      deviceSerialNumber |-> Absent, textBrut |-> Absent ]

\* dict.get(key): None when the key is absent.
DictGet(v) == IF v.t = "absent" THEN PyNone ELSE v

\* bool(dict): a dict is truthy when it has a key.
DictTruthy(obj) ==
    \/ obj.event.t # "absent"
    \/ obj.text.t # "absent"
    \/ obj.suppress_confirmation.t # "absent"
    \/ obj.deviceSerialNumber.t # "absent"
    \/ obj.textBrut.t # "absent"

(***************************************************************************)
(* The value of the `state` field of the response body:                    *)
(*   t = "absent"            no `state` key                                *)
(*   t = "null", "int", "bool", "list"   a JSON value of that type, its    *)
(*                           truthiness in truthy                          *)
(*   t = "dict"              the object obj                                *)
(*   t = "str"               a JSON string; it is empty (truthy FALSE), or *)
(*                           its text is not JSON (inner = "invalid"), or  *)
(*                           it is the JSON text of a value of type inner, *)
(*                           the object obj when inner = "dict"            *)
(***************************************************************************)
StateField(t, truthy, inner, obj) == [t |-> t, truthy |-> truthy, inner |-> inner, obj |-> obj]

MalformedStateFields ==
    { StateField("absent", FALSE, "none", EmptyObject),
      StateField("null", FALSE, "none", EmptyObject),
      StateField("int", FALSE, "none", EmptyObject),
      StateField("int", TRUE, "none", EmptyObject),
      StateField("bool", FALSE, "none", EmptyObject),
      StateField("bool", TRUE, "none", EmptyObject),
      StateField("list", FALSE, "none", EmptyObject),
      StateField("list", TRUE, "none", EmptyObject),
      StateField("str", FALSE, "invalid", EmptyObject),
      StateField("str", TRUE, "invalid", EmptyObject),
      StateField("str", TRUE, "int", EmptyObject),
      StateField("str", TRUE, "list", EmptyObject),
      StateField("str", TRUE, "null", EmptyObject) }

ObjectStateFields == { StateField("dict", DictTruthy(o), "none", o) : o \in StateObjects }

EncodedStateFields == { StateField("str", TRUE, "dict", o) : o \in StateObjects }

StateFields == MalformedStateFields \cup ObjectStateFields \cup EncodedStateFields

(***************************************************************************)
(* A response body (response.data):                                        *)
(*   form = "bytes"    bytes that are not UTF-8                            *)
(*   form = "text"     text that is not JSON                               *)
(*   form = "value"    JSON, but not an object (a list, a number, null)    *)
(*   form = "object"   a JSON object, its `state` field in state           *)
(***************************************************************************)
Body(form, state) == [form |-> form, state |-> state]

NoBody == Body("none", StateField("absent", FALSE, "none", EmptyObject))

MalformedBodies ==
    { Body(f, StateField("absent", FALSE, "none", EmptyObject)) : f \in {"bytes", "text", "value"} }

Bodies == MalformedBodies \cup { Body("object", sf) : sf \in StateFields }

(***************************************************************************)
(* State of the client.                                                    *)
(***************************************************************************)
VARIABLES
    MAX_RETRIES,       \* config.MAX_RETRIES
    CAN_POST_LOGS,     \* config.CAN_POST_LOGS
    RETRY_DELAY,       \* config.RETRY_DELAY, in seconds
    language_strings,  \* self.language_strings
    jee_state,         \* self.jee_state
    pc,                \* "idle", or "request" inside _request_with_retry
    method,            \* method of the request under way: "GET" or "POST"
    attempt,           \* loop variable of _request_with_retry
    response,          \* what _request_with_retry returned to the current call
    http,              \* the HTTP requests of the current call, in order, with their outcomes
    ret,               \* how the last call of get_question / post_event ended
    prev,              \* the call before the current one, and what its request returned
    slept,             \* the arguments of the time.sleep calls of the current call, in order
    logs,              \* what each post_log call of the current call sent and returned, in order
    pure               \* a function of the client applied on its own: its argument and result

vars ==
    << MAX_RETRIES, CAN_POST_LOGS, RETRY_DELAY, language_strings, jee_state, pc, method, attempt,
       response, http, ret, prev, slept, logs, pure >>

\* language_strings.get(key, default)
LangGet(key, default) ==
    IF key \in DOMAIN language_strings THEN language_strings[key] ELSE default

\* schemas.QuestionState / QuestionStateError / None, as one record shape.
StateNone ==
    [ kind |-> "None", event_id |-> PyNone, text |-> PyNone, suppress_confirmation |-> FALSE,
      deviceSerialNumber |-> PyNone, textBrut |-> PyNone ]

QuestionStateError(text) ==
    [ kind |-> "Error", event_id |-> PyNone, text |-> text, suppress_confirmation |-> FALSE,
      deviceSerialNumber |-> PyNone, textBrut |-> PyNone ]

QuestionState(event_id, suppress, text, serial, brut) ==
    [ kind |-> "Active", event_id |-> event_id, text |-> text, suppress_confirmation |-> suppress,
      deviceSerialNumber |-> serial, textBrut |-> brut ]

\* The answer body with its transmissions numbered.
SentData_numbered(url) == IF url = "answer" THEN PyInt(attempt) ELSE PyNone

\* What a request carries: for the answer endpoint the body post_event built
\* from the state before the loop (lines 249-256), of which the event_id is kept.
SentData(url) == IF url = "answer" THEN jee_state.event_id ELSE PyNone

\* One HTTP request, what it carried (data) and what came of it.
Request(url, res, status, exc, body) ==
    [ url |-> url, res |-> res, status |-> status, exc |-> exc, body |-> body,
      data |-> SentData(url) ]

\* Results of a call.
RetNone == [ op |-> "none", kind |-> "none", b |-> FALSE, text |-> PyNone, exc |-> "" ]

RetBool(op, v) == [ op |-> op, kind |-> "bool", b |-> v, text |-> PyNone, exc |-> "" ]

RetText(op, v) == [ op |-> op, kind |-> "text", b |-> FALSE, text |-> v, exc |-> "" ]

RetRaise(op, e) == [ op |-> op, kind |-> "raise", b |-> FALSE, text |-> PyNone, exc |-> e ]

(***************************************************************************)
(* post_log: what the log endpoint does with the one request, if any.      *)
(***************************************************************************)
LogOutcomes ==
    { Request("log", "response", 200, "", NoBody),
      Request("log", "response", 500, "", NoBody),
      Request("log", "exception", 0, "TimeoutError", NoBody) }

\* JeedomClient.post_log returning True for any response, whatever its status.
post_log_any_status(outcome) ==
    IF ~CAN_POST_LOGS
    THEN [ sent |-> <<>>, result |-> FALSE ]
    ELSE [ sent |-> << outcome >>,
           result |-> outcome.res = "response" ]

\* JeedomClient.post_log: the request it sends (none when disabled) and its result.
post_log(outcome) ==
    IF ~CAN_POST_LOGS
    THEN [ sent |-> <<>>, result |-> FALSE ]
    ELSE [ sent |-> << outcome >>,
           result |-> outcome.res = "response" /\ outcome.status < 400 ]

\* JeedomClient._handle_http_error with its 401 branch left out.
HandleHttpError_no401(status) ==
    IF status = 404 THEN ErrorText(404, LangGet("ERROR_404", "Resource not found"))
    ELSE IF status >= 400 THEN ErrorText(status, LangGet("ERROR_400", "Request error"))
    ELSE PyNone

\* JeedomClient._handle_http_error treating only 4xx as errors.
HandleHttpError_only4xx(status) ==
    IF status = 401 THEN ErrorText(401, LangGet("ERROR_401", "Authentication error"))
    ELSE IF status = 404 THEN ErrorText(404, LangGet("ERROR_404", "Resource not found"))
    ELSE IF status >= 400 /\ status < 500 THEN ErrorText(status, LangGet("ERROR_400", "Request error"))
    ELSE PyNone

\* JeedomClient._handle_http_error without the 404 branch.
HandleHttpError_no404(status) ==
    IF status = 401 THEN ErrorText(401, LangGet("ERROR_401", "Authentication error"))
    ELSE IF status >= 400 THEN ErrorText(status, LangGet("ERROR_400", "Request error"))
    ELSE PyNone

\* JeedomClient._handle_http_error: the error message, or None.
_handle_http_error(status) ==
    IF status = 401 THEN ErrorText(401, LangGet("ERROR_401", "Authentication error"))
    ELSE IF status = 404 THEN ErrorText(404, LangGet("ERROR_404", "Resource not found"))
    ELSE IF status >= 400 THEN ErrorText(status, LangGet("ERROR_400", "Request error"))
    ELSE PyNone

\* The post_log calls of _handle_http_error, the one of its last branch forgotten.
HandleHttpErrorLogs_named_only(status, outcome) ==
    IF status = 401 \/ status = 404 THEN << post_log(outcome) >> ELSE <<>>

\* Lines 100, 106, 112: the post_log calls of _handle_http_error, one in each error branch.
HandleHttpErrorLogs(status, outcome) ==
    IF status = 401 THEN << post_log(outcome) >>
    ELSE IF status = 404 THEN << post_log(outcome) >>
    ELSE IF status >= 400 THEN << post_log(outcome) >>
    ELSE <<>>

\* The requests that a sequence of post_log calls sent.
RECURSIVE SentBy(_)
SentBy(calls) == IF calls = <<>> THEN <<>> ELSE Head(calls).sent \o SentBy(Tail(calls))

\* Line 136 as a loop whose body runs once before its bound is tested.
InRange_at_least_once(a) == a = 0 \/ (a >= 0 /\ a < MAX_RETRIES)

\* Line 136, `for attempt in range(MAX_RETRIES)`: a is a value the loop takes.
InRange(a) == a >= 0 /\ a < MAX_RETRIES

\* Line 162 with the bound off by one.
MoreAttempts_off_by_one(a) == a < MAX_RETRIES

\* Line 162, `if attempt < MAX_RETRIES - 1`: sleep and try again.
MoreAttempts(a) == a < MAX_RETRIES - 1

(***************************************************************************)
(* get_question after _request_with_retry has returned.                    *)
(***************************************************************************)
\* Lines 209-215 with text and textBrut taken from each other's key.
BuildQuestionState_swapped(o) ==
    QuestionState(DictGet(o.event),
                  _string_to_bool(DictGet(o.suppress_confirmation)),
                  DictGet(o.textBrut),
                  DictGet(o.deviceSerialNumber),
                  DictGet(o.text))

\* Lines 209-215: the QuestionState built from the decoded state object.
BuildQuestionState(o) ==
    QuestionState(DictGet(o.event),
                  _string_to_bool(DictGet(o.suppress_confirmation)),
                  DictGet(o.text),
                  DictGet(o.deviceSerialNumber),
                  DictGet(o.textBrut))

\* Lines 194-225: the parsing of a response, as the new state and the result.
ParseQuestion(body, before) ==
    LET parseError == [ st |-> QuestionStateError(PyStr(LangGet("ERROR_PARSE", "Failed to parse response"))),
                        r  |-> RetBool("get_question", FALSE) ]
        configError == [ st |-> QuestionStateError(PyStr(LangGet("ERROR_CONFIG", "Configuration error"))),
                         r  |-> RetBool("get_question", FALSE) ]
        active(o) == [ st |-> BuildQuestionState(o), r |-> RetBool("get_question", TRUE) ]
        sf == body.state
    IN  CASE body.form = "bytes" -> [ st |-> before, r |-> RetRaise("get_question", "UnicodeDecodeError") ]
          [] body.form = "text"  -> parseError
          [] body.form = "value" -> parseError
          [] OTHER ->
               IF sf.t = "absent" \/ ~sf.truthy THEN configError
               ELSE IF sf.t = "str"
                    THEN IF sf.inner = "invalid" THEN parseError
                         ELSE IF sf.inner = "dict" THEN active(sf.obj)
                         ELSE parseError
                    ELSE IF sf.t = "dict" THEN active(sf.obj)
                    ELSE parseError

\* get_question, lines 191-192: no response.
GetQuestionFailed == RetBool("get_question", FALSE)

(***************************************************************************)
(* post_event.                                                             *)
(***************************************************************************)
\* Line 244 without its isinstance test.
NoValidState_none_only(st) == st.kind = "None"

\* Line 244: `not self.jee_state or isinstance(self.jee_state, QuestionStateError)`.
NoValidState(st) == st.kind = "None" \/ st.kind = "Error"

\* Lines 269-270: no response; st is the state _request_with_retry left.
PostEventFailed(st) == [ st |-> st, r |-> RetText("post_event", st.text) ]

\* Lines 272-278 clearing the state only when a confirmation is spoken.
PostEventDone_keeps_state(st) ==
    IF ~st.suppress_confirmation
    THEN [ st |-> StateNone, r |-> RetText("post_event", PyStr(LangGet("OKAY", "OK"))) ]
    ELSE [ st |-> st, r |-> RetText("post_event", PyStr("")) ]

\* Lines 272-278 with the test of suppress_confirmation inverted.
PostEventDone_inverted(st) ==
    IF st.suppress_confirmation
    THEN [ st |-> StateNone, r |-> RetText("post_event", PyStr(LangGet("OKAY", "OK"))) ]
    ELSE [ st |-> StateNone, r |-> RetText("post_event", PyStr("")) ]

\* Lines 272-278: a response; st is the state _request_with_retry left.
PostEventDone(st) ==
    IF ~st.suppress_confirmation
    THEN [ st |-> StateNone, r |-> RetText("post_event", PyStr(LangGet("OKAY", "OK"))) ]
    ELSE [ st |-> StateNone, r |-> RetText("post_event", PyStr("")) ]

\* The caller taking over with the state it held before the request.
AfterFailure_keeps_state(st) ==
    IF method = "GET" THEN [ st |-> jee_state, r |-> GetQuestionFailed ] ELSE PostEventFailed(jee_state)

\* The caller of _request_with_retry takes over: no response.
AfterFailure(st) ==
    IF method = "GET" THEN [ st |-> st, r |-> GetQuestionFailed ] ELSE PostEventFailed(st)

\* The caller of _request_with_retry takes over: a response.
AfterResponse(st, body) ==
    IF method = "GET" THEN ParseQuestion(body, st) ELSE PostEventDone(st)

Url == IF method = "GET" THEN "question" ELSE "answer"

\* What is remembered of a call when the next one begins.
Summary == [ op |-> ret.op, response |-> response ]

(***************************************************************************)
(* Initial state: a client right after construction.                       *)
(***************************************************************************)
\* An empty dict: no extra fields, no body.
NoFields == [k \in {} |-> PyNone]

\* No function has been applied on its own yet: fn names the function last
\* applied, the other fields hold its arguments and what it produced.
PureIdle ==
    [ fn |-> "none", arg |-> PyNone, out |-> PyNone, st |-> StateNone, after |-> StateNone,
      response |-> PyNone, response_type |-> PyNone, person |-> PyNone,
      kwargs |-> NoFields, body |-> NoFields, sent |-> <<>>,
      TOKEN |-> "", handler_input |-> FALSE, lookup |-> PyNone, token |-> PyNone,
      lookups |-> 0, op |-> "none", headers |-> NoFields ]

\* JeedomClient.__init__: the client right after construction.
Constructed ==
    /\ jee_state = StateNone
    /\ pc = "idle"
    /\ method = "GET"
    /\ attempt = 0
    /\ response = "none"
    /\ http = <<>>
    /\ ret = RetNone
    /\ prev = [ op |-> "none", response |-> "none" ]
    /\ slept = <<>>
    /\ logs = <<>>

\* Every retry count, log switch and language table, with the default delay.
Init ==
    /\ MAX_RETRIES \in RetryConfigs
    /\ CAN_POST_LOGS \in BOOLEAN
    /\ RETRY_DELAY = DefaultRetryDelay
    /\ language_strings \in LanguageTables
    /\ Constructed
    /\ pure = PureIdle

\* Every retry count and delay, with log posting on and no language table.
InitDelay ==
    /\ MAX_RETRIES \in RetryConfigs
    /\ CAN_POST_LOGS = TRUE
    /\ RETRY_DELAY \in DelayConfigs
    /\ language_strings = NoStrings
    /\ Constructed
    /\ pure = PureIdle

Config == << MAX_RETRIES, CAN_POST_LOGS, RETRY_DELAY, language_strings >>

\* Line 163, the argument of time.sleep, counting the attempts from 0.
SleepArg_zero_based(a) == RETRY_DELAY * a

\* Line 163, the argument of time.sleep: `RETRY_DELAY * (attempt + 1)`.
SleepArg(a) == RETRY_DELAY * (a + 1)

\* time.sleep(secs) raises ValueError for a negative argument.
SleepRaises(secs) == secs < 0

\* The method of the client that is running.
Op == IF method = "GET" THEN "get_question" ELSE "post_event"

(***************************************************************************)
(* Actions.                                                                *)
(***************************************************************************)
\* get_question up to the first attempt (or to its return when the loop has no iteration).
get_question ==
    /\ pc = "idle"
    /\ method' = "GET"
    /\ attempt' = 0
    /\ http' = <<>>
    /\ slept' = <<>>
    /\ logs' = <<>>
    /\ prev' = Summary
    /\ IF InRange(0)
       THEN /\ pc' = "request"
            /\ ret' = RetNone
            /\ response' = "none"
       ELSE /\ pc' = "idle"
            /\ ret' = GetQuestionFailed
            /\ response' = "None"
    /\ UNCHANGED << Config, jee_state, pure >>

\* post_event up to the first attempt, or to its return.
post_event ==
    /\ pc = "idle"
    /\ method' = "POST"
    /\ attempt' = 0
    /\ http' = <<>>
    /\ slept' = <<>>
    /\ logs' = <<>>
    /\ prev' = Summary
    /\ IF NoValidState(jee_state)
       THEN /\ pc' = "idle"
            /\ ret' = RetText("post_event", PyStr(LangGet("ERROR_CONFIG", "Error")))
            /\ response' = "none"
       ELSE IF InRange(0)
       THEN /\ pc' = "request"
            /\ ret' = RetNone
            /\ response' = "none"
       ELSE /\ pc' = "idle"
            /\ ret' = PostEventFailed(jee_state).r
            /\ response' = "None"
    /\ UNCHANGED << Config, jee_state, pure >>

\* One attempt that raises HTTPError, MaxRetryError or TimeoutError (lines 159-171).
attempt_transport_failure ==
    /\ pc = "request"
    /\ InRange(attempt)
    /\ \E exc \in TransportExceptions :
          LET req == Request(Url, "transport", 0, exc, NoBody)
          IN  IF MoreAttempts(attempt)
              THEN /\ http' = Append(http, req)
                   /\ slept' = Append(slept, SleepArg(attempt))
                   /\ IF SleepRaises(SleepArg(attempt))
                      THEN /\ pc' = "idle"
                           /\ response' = "raise"
                           /\ ret' = RetRaise(Op, "ValueError")
                           /\ UNCHANGED attempt
                      ELSE /\ attempt' = attempt + 1
                           /\ UNCHANGED << pc, ret, response >>
                   /\ UNCHANGED << jee_state, logs >>
              ELSE \E lo \in LogOutcomes :
                   LET log == post_log(lo)
                       st == QuestionStateError(PyStr(LangGet("ERROR_NETWORK", "Network error")))
                       out == AfterFailure(st)
                   IN  /\ http' = Append(http, req) \o log.sent
                       /\ logs' = Append(logs, log)
                       /\ jee_state' = out.st
                       /\ ret' = out.r
                       /\ response' = "None"
                       /\ pc' = "idle"
                       /\ UNCHANGED << attempt, slept >>
    /\ UNCHANGED << Config, method, prev, pure >>

\* An exception of any other kind handled as a transport failure is: tried again.
attempt_exception_retried ==
    /\ pc = "request"
    /\ InRange(attempt)
    /\ MoreAttempts(attempt)
    /\ \E exc \in OtherExceptions :
          http' = Append(http, Request(Url, "exception", 0, exc, NoBody))
    /\ attempt' = attempt + 1
    /\ UNCHANGED << Config, jee_state, pc, method, response, ret, prev, slept, logs, pure >>

\* One attempt that raises any other exception (lines 173-178).
attempt_exception ==
    /\ pc = "request"
    /\ InRange(attempt)
    /\ \E exc \in OtherExceptions :
          LET req == Request(Url, "exception", 0, exc, NoBody)
              st == QuestionStateError(PyStr(LangGet("ERROR_GENERAL", "An error occurred")))
              out == AfterFailure(st)
          IN  /\ http' = Append(http, req)
              /\ jee_state' = out.st
              /\ ret' = out.r
              /\ response' = "None"
              /\ pc' = "idle"
    /\ UNCHANGED << Config, method, attempt, prev, slept, logs, pure >>

\* The bodies the hub may send with a response: only the question endpoint's body is read.
ResponseBodies(status) ==
    IF method = "GET" /\ status < 400 THEN Bodies ELSE { NoBody }

\* One attempt answered by the hub (lines 148-157), and what the caller does with it.
attempt_response ==
    /\ pc = "request"
    /\ InRange(attempt)
    /\ \E status \in StatusCodes :
          LET error_msg == _handle_http_error(status)
          IN  IF Truthy(error_msg)
              THEN \E lo \in LogOutcomes :
                      LET req == Request(Url, "response", status, "", NoBody)
                          called == HandleHttpErrorLogs(status, lo)
                          out == AfterFailure(QuestionStateError(error_msg))
                      IN  /\ http' = Append(http, req) \o SentBy(called)
                          /\ logs' = logs \o called
                          /\ jee_state' = out.st
                          /\ ret' = out.r
                          /\ response' = "None"
              ELSE \E body \in ResponseBodies(status) :
                      LET req == Request(Url, "response", status, "", body)
                          out == AfterResponse(jee_state, body)
                      IN  /\ http' = Append(http, req)
                          /\ jee_state' = out.st
                          /\ ret' = out.r
                          /\ response' = "HTTPResponse"
                          /\ UNCHANGED logs
    /\ pc' = "idle"
    /\ UNCHANGED << Config, method, attempt, prev, slept, pure >>

Next ==
    \/ get_question
    \/ post_event
    \/ attempt_transport_failure
    \/ attempt_exception
    \/ attempt_response

Spec == Init /\ [][Next]_vars

\* The same client under every configured delay.
SpecDelay == InitDelay /\ [][Next]_vars

(***************************************************************************)
(* The client with its requests taken to end: the PoolManager is built     *)
(* with connect and read timeouts and retries=False (lines 46-50), so an   *)
(* attempt under way ends in a response or an exception, and time.sleep    *)
(* returns.                                                                *)
(***************************************************************************)
\* One attempt of _request_with_retry ends, whichever way.
AttemptEnds ==
    \/ attempt_transport_failure
    \/ attempt_exception
    \/ attempt_response

\* The retry counts at the ends of the configured range: no attempt at all,
\* a single attempt, and the largest number of attempts.
EdgeRetryConfigs == { MinRetriesCfg, 0, 1, MaxRetriesCfg }

\* A client with log posting on, the default delay and no language table.
InitLive ==
    /\ MAX_RETRIES \in EdgeRetryConfigs
    /\ CAN_POST_LOGS = TRUE
    /\ RETRY_DELAY = DefaultRetryDelay
    /\ language_strings = NoStrings
    /\ Constructed
    /\ pure = PureIdle

SpecLive == InitLive /\ [][Next]_vars /\ WF_vars(AttemptEnds)

(***************************************************************************)
(* The client's helpers applied on their own: the coercion of              *)
(* suppress_confirmation, the answer body post_event builds, and the two   *)
(* ways a log message is posted.  None of them touches the client's state. *)
(***************************************************************************)
\* Longest run of trailing blanks on a coerced string.
MaxPad == 1

\* Most extra fields (**kwargs) a caller passes to post_event.
MaxExtraFields == 2

\* The upper-case form of a letter, used to spell the inputs.
UpperChar(c) ==
    CASE c = "t" -> "T" [] c = "r" -> "R" [] c = "u" -> "U" [] c = "e" -> "E"
      [] c = "y" -> "Y" [] c = "s" -> "S" [] c = "o" -> "O" [] c = "i" -> "I"
      [] c = "n" -> "N" [] c = "f" -> "F" [] c = "a" -> "A" [] c = "l" -> "L"
      [] OTHER -> c

Words ==
    { <<"t","r","u","e">>, <<"1">>, <<"y","e","s">>, <<"o","u","i">>,
      <<"f","a","l","s","e">>, <<"0">>, <<"n","o">>, <<>>, <<"o","n">>,
      <<"y">>, <<"4","2">> }

\* The word w with the letters at the positions of S in upper case.
Cased(w, S) == [i \in 1..Len(w) |-> IF i \in S THEN UpperChar(w[i]) ELSE w[i]]

Padded(w, n) == w \o [i \in 1..n |-> " "]

CoercedStrings ==
    UNION { { Padded(Cased(w, S), n) : S \in SUBSET (1..Len(w)), n \in 0..MaxPad } : w \in Words }

\* Values the hub can put in suppress_confirmation, the absent key included.
CoercionInputs ==
    { PyChars(c) : c \in CoercedStrings }
        \cup { Absent, PyNone, PyInt(42), PyInt(0), PyInt(1), PyBool(TRUE), PyBool(FALSE) }

\* config.CODE_VERS
CODE_VERS == 1

\* dict.update(other): the keys of other overwrite those of base.
DictUpdate(base, other) ==
    [k \in DOMAIN base \cup DOMAIN other |-> IF k \in DOMAIN other THEN other[k] ELSE base[k]]

\* body[key] = value
DictSet(base, key, value) ==
    [k \in DOMAIN base \cup {key} |-> IF k = key THEN value ELSE base[k]]

\* Lines 249-256: the base fields of the answer body.
BaseBody(st, resp, resp_type) ==
    [k \in { "event_id", "event_response", "event_response_type",
             "deviceSerialNumber", "textBrut", "code_version" } |->
        CASE k = "event_id"            -> st.event_id
          [] k = "event_response"      -> resp
          [] k = "event_response_type" -> resp_type
          [] k = "deviceSerialNumber"  -> st.deviceSerialNumber
          [] k = "textBrut"            -> st.textBrut
          [] OTHER                     -> PyInt(CODE_VERS)]

\* Lines 249-262 with the person's id set before the extra fields are merged.
RequestBody_person_first(st, resp, resp_type, kwargs, person) ==
    LET body == BaseBody(st, resp, resp_type)
        withPerson == IF Truthy(person) THEN DictSet(body, "event_person_id", person) ELSE body
    IN  DictUpdate(withPerson, kwargs)

\* Lines 249-262: the answer body post_event sends.
RequestBody(st, resp, resp_type, kwargs, person) ==
    LET body == DictUpdate(BaseBody(st, resp, resp_type), kwargs)
    IN  IF Truthy(person) THEN DictSet(body, "event_person_id", person) ELSE body

\* Keys a caller can pass as extra fields, and the values given to them.
ExtraKeys ==
    { "event_id", "event_response", "event_response_type", "device", "textBrut",
      "event_person_id" }

ExtraValues == { PyStr("extra") }

ExtraFields ==
    UNION { [S -> ExtraValues] : S \in { T \in SUBSET ExtraKeys : Cardinality(T) <= MaxExtraFields } }

\* Questions an answer is posted for.
ActiveStates ==
    { QuestionState(PyStr("42"), FALSE, PyStr("Turn on the light?"), PyNone, PyNone),
      QuestionState(PyStr("7"), TRUE, PyStr("Volume?"), PyStr("G090XG"), PyStr("quel volume")) }

Answers == { PyStr("yes"), PyStr("15") }

AnswerTypes == { PyStr("ResponseYes"), PyStr("ResponseNumeric") }

\* context.system.person.person_id, None when no person is recognised.
Persons == { PyNone, PyStr("amzn1.ask.person.P1") }

\* config.LOG_URL: a path below the hub's address, with no scheme and no host.
LOG_URL == [ scheme |-> "", path |-> "plugins/alexaapiv2/core/php/askResponse.php" ]

\* requests.post sending whatever the URL is.
requests_post_any_url(url, outcome) ==
    [ sent |-> << outcome >>, exc |-> outcome.exc, status |-> outcome.status ]

\* requests.post(url, ...): a URL with no scheme is refused before anything
\* is sent (MissingSchema, a RequestException); otherwise the one request.
requests_post(url, outcome) ==
    IF url.scheme = ""
    THEN [ sent |-> <<>>, exc |-> "MissingSchema", status |-> 0 ]
    ELSE [ sent |-> << outcome >>, exc |-> outcome.exc, status |-> outcome.status ]

\* JeedomLogger.log_to_jeedom: it does not read CAN_POST_LOGS, posts to
\* LOG_URL as it stands, and is True for a 200 only.
log_to_jeedom(outcome) ==
    LET r == requests_post(LOG_URL, outcome)
    IN  [ sent |-> r.sent, result |-> r.exc = "" /\ r.status = 200 ]

\* The variables of the client proper.
ClientVars ==
    << Config, jee_state, pc, method, attempt, response, http, ret, prev, slept, logs >>

\* _string_to_bool(state.get("suppress_confirmation")) on a value of the hub.
call__string_to_bool ==
    \E v \in CoercionInputs :
        /\ pure' = [ PureIdle EXCEPT !.fn = "_string_to_bool", !.arg = v,
                                     !.out = PyBool(_string_to_bool(DictGet(v))) ]
        /\ UNCHANGED ClientVars

\* post_event up to the request: the body built for an active question.
call_post_event_body ==
    \E st \in ActiveStates, resp \in Answers, resp_type \in AnswerTypes,
       kwargs \in ExtraFields, person \in Persons :
        /\ ~NoValidState(st)
        /\ pure' = [ PureIdle EXCEPT !.fn = "post_event", !.st = st, !.response = resp,
                                     !.response_type = resp_type, !.person = person,
                                     !.kwargs = kwargs,
                                     !.body = RequestBody(st, resp, resp_type, kwargs, person) ]
        /\ UNCHANGED ClientVars

\* The states a client may hold when post_log is called: none yet, a question,
\* the error of an earlier call.
LogCallStates ==
    { StateNone } \cup ActiveStates
        \cup { QuestionStateError(PyStr(LangGet("ERROR_NETWORK", "Network error"))) }

\* post_log recording its own failure in the client state.
PostLogState_error_on_failure(st, lo) ==
    IF CAN_POST_LOGS /\ ~post_log(lo).result
    THEN QuestionStateError(PyStr(LangGet("ERROR_GENERAL", "An error occurred")))
    ELSE st

\* Lines 280-318: the client state after post_log; no line assigns self.jee_state.
PostLogState(st, lo) == st

\* post_log called on its own, on a client holding the state st.
call_post_log ==
    \E lo \in LogOutcomes, st \in LogCallStates :
        /\ pure' = [ PureIdle EXCEPT !.fn = "post_log", !.sent = post_log(lo).sent,
                                     !.out = PyBool(post_log(lo).result),
                                     !.st = st, !.after = PostLogState(st, lo) ]
        /\ UNCHANGED ClientVars

\* _handle_http_error on a response of the hub, with the log call it makes.
call__handle_http_error ==
    \E status \in StatusCodes, lo \in LogOutcomes :
        /\ pure' = [ PureIdle EXCEPT !.fn = "_handle_http_error", !.arg = PyInt(status),
                                     !.out = _handle_http_error(status),
                                     !.sent = SentBy(HandleHttpErrorLogs(status, lo)) ]
        /\ UNCHANGED ClientVars

\* JeedomLogger.log_to_jeedom, which log_intent and log_error end in.
call_log_to_jeedom ==
    \E lo \in LogOutcomes :
        /\ pure' = [ PureIdle EXCEPT !.fn = "log_to_jeedom", !.sent = log_to_jeedom(lo).sent,
                                     !.out = PyBool(log_to_jeedom(lo).result) ]
        /\ UNCHANGED ClientVars

(***************************************************************************)
(* The bearer token and the headers of a request.                          *)
(***************************************************************************)
\* config.TOKEN: "" when JEEDOM_TOKEN is not set.
TokenConfigs == { "", "static-token" }

\* An exception raised by a call, as a value.
Raised(e) == [t |-> "raise", s |-> e, cs |-> <<>>, n |-> 0, b |-> FALSE, code |-> 0]

\* get_account_linking_access_token(handler_input): the linked account's
\* token, None for a user who has not linked an account, or an exception.
LookupOutcomes == { PyStr("Atza|linked"), PyNone, Raised("AttributeError") }

\* JeedomClient._fetch_token: the token, and the number of lookups made.
_fetch_token(handler_input, lookup) ==
    IF ~handler_input THEN [ token |-> PyNone, lookups |-> 0 ]
    ELSE IF lookup.t = "raise" THEN [ token |-> PyNone, lookups |-> 1 ]
    ELSE [ token |-> lookup, lookups |-> 1 ]

\* Line 43: `self.token = self._fetch_token() if TOKEN == "" else TOKEN`.
InitToken(cfg, handler_input, lookup) ==
    IF cfg = "" THEN _fetch_token(handler_input, lookup)
    ELSE [ token |-> PyStr(cfg), lookups |-> 0 ]

\* JeedomClient._get_headers sending an Authorization header in every case.
GetHeaders_always_auth(token) ==
    [h \in { "Content-Type", "Accept", "Authorization" } |->
        IF h = "Authorization" THEN << "Bearer ", token.s >> ELSE << "application/json" >>]

\* JeedomClient._get_headers: each value as the parts of its text.
_get_headers(token) ==
    LET headers == [h \in { "Content-Type", "Accept" } |-> << "application/json" >>]
    IN  IF Truthy(token)
        THEN [h \in DOMAIN headers \cup { "Authorization" } |->
                 IF h = "Authorization" THEN << "Bearer ", token.s >> ELSE headers[h]]
        ELSE headers

\* The methods that build headers for a request (lines 188, 266, 303).
HeaderCallers == { "get_question", "post_event", "post_log" }

\* JeedomClient.__init__, lines 41-43: the token the new client holds.
call___init__ ==
    \E cfg \in TokenConfigs, handler_input \in BOOLEAN, lookup \in LookupOutcomes :
        /\ pure' = [ PureIdle EXCEPT !.fn = "__init__", !.TOKEN = cfg,
                                     !.handler_input = handler_input, !.lookup = lookup,
                                     !.token = InitToken(cfg, handler_input, lookup).token,
                                     !.lookups = InitToken(cfg, handler_input, lookup).lookups ]
        /\ UNCHANGED ClientVars

\* _get_headers called by a method of a constructed client: it reads self.token.
call__get_headers ==
    /\ pure.fn \in { "__init__", "_get_headers" }
    /\ \E op \in HeaderCallers :
          pure' = [ pure EXCEPT !.fn = "_get_headers", !.op = op,
                                !.headers = _get_headers(pure.token) ]
    /\ UNCHANGED ClientVars

\* A client with the default retry settings, either log switch.
InitPure ==
    /\ MAX_RETRIES = DefaultMaxRetries
    /\ CAN_POST_LOGS \in BOOLEAN
    /\ RETRY_DELAY = DefaultRetryDelay
    /\ language_strings = NoStrings
    /\ Constructed
    /\ pure = PureIdle

NextPure ==
    \/ call__string_to_bool
    \/ call_post_event_body
    \/ call_post_log
    \/ call__handle_http_error
    \/ call_log_to_jeedom
    \/ call___init__
    \/ call__get_headers

SpecPure == InitPure /\ [][NextPure]_vars

(***************************************************************************)
(* Observations used by the properties.                                    *)
(***************************************************************************)
IsAttempt(r) == r.url # "log"

\* The attempts of the current call: its requests to the question or answer endpoint.
Attempts == SelectSeq(http, IsAttempt)

IsTransportFailure(r) == r.res = "transport"

AllTransportFailures == \A i \in 1..Len(Attempts) : IsTransportFailure(Attempts[i])

LastAttempt == Attempts[Len(Attempts)]

IsErrorStatus(r) == r.res = "response" /\ r.status >= 400

\* The call under way has returned to its caller.
Returned(op) == pc = "idle" /\ ret.op = op

\* The request of the returned call failed by transport failures or by an error status.
RequestFailed ==
    /\ Len(Attempts) > 0
    /\ response = "None"
    /\ IsTransportFailure(LastAttempt) \/ IsErrorStatus(LastAttempt)

(***************************************************************************)
(* C1.  Under consecutive transport failures the retry loop makes one      *)
(* attempt per failure and no more than MAX_RETRIES in all: while fewer    *)
(* than MAX_RETRIES attempts have failed the call is still in the loop,    *)
(* with as many attempts made as failures met, and once MAX_RETRIES        *)
(* attempts have failed the call has returned None and no further attempt  *)
(* exists.                                                                 *)
(***************************************************************************)
C1_RetryBound ==
    /\ Len(Attempts) > 0 => Len(Attempts) <= MAX_RETRIES
    /\ (Len(Attempts) > 0 /\ AllTransportFailures) =>
          /\ Len(Attempts) < MAX_RETRIES => (pc = "request" /\ attempt = Len(Attempts))
          /\ Len(Attempts) = MAX_RETRIES => (pc = "idle" /\ response = "None")
    /\ pc = "request" => (AllTransportFailures /\ attempt = Len(Attempts) /\ attempt < MAX_RETRIES)

C1_Witness ==
    /\ MAX_RETRIES = MaxRetriesCfg
    /\ Len(Attempts) = MAX_RETRIES
    /\ AllTransportFailures
    /\ pc = "idle"
    /\ response = "None"

(***************************************************************************)
(* C2.  A post_event in an Active state whose answer request fails leaves  *)
(* the state as it was (the same Active question) and returns the prompt   *)
(* text of that question.                                                  *)
(***************************************************************************)
PostFailsStep ==
    /\ pc = "request"
    /\ method = "POST"
    /\ pc' = "idle"
    /\ response' = "None"

C2_FailedPostKeepsActive ==
    [][PostFailsStep => (jee_state' = jee_state /\ ret'.text = jee_state.text)]_vars

(***************************************************************************)
(* C3.  A response with status >= 400 is the last attempt of its call: the *)
(* call has returned None, and the state is the Error whose message        *)
(* carries that status code; arriving first, it is the only attempt.       *)
(***************************************************************************)
C3_ErrorStatusEndsCall ==
    \A i \in 1..Len(Attempts) :
        IsErrorStatus(Attempts[i]) =>
            /\ i = Len(Attempts)
            /\ pc = "idle"
            /\ response = "None"
            /\ jee_state.kind = "Error"
            /\ jee_state.text.code = Attempts[i].status

C3_Witness ==
    /\ Len(Attempts) = 1
    /\ IsErrorStatus(Attempts[1])
    /\ Attempts[1].status = 500
    /\ jee_state.kind = "Error"
    /\ MAX_RETRIES > 1

(***************************************************************************)
(* C4.  post_event called in state None or Error returns at once with a    *)
(* non-empty string, no request having been sent: neither to the answer    *)
(* endpoint nor to the log endpoint.                                       *)
(***************************************************************************)
PostCallStep == pc = "idle" /\ method' = "POST"

C4_NoStateNoNetwork ==
    [][(PostCallStep /\ jee_state.kind \in {"None", "Error"}) =>
          /\ pc' = "idle"
          /\ http' = <<>>
          /\ ret'.op = "post_event"
          /\ ret'.kind = "text"
          /\ Truthy(ret'.text)]_vars

C4_Witness ==
    /\ Returned("post_event")
    /\ jee_state.kind = "Error"
    /\ response = "none"
    /\ http = <<>>
    /\ prev.op = "get_question"

(***************************************************************************)
(* C5.  After a post_event whose answer request got a response, the state  *)
(* is None, whatever suppress_confirmation was.                            *)
(***************************************************************************)
C5_SuccessfulPostClears ==
    (Returned("post_event") /\ response = "HTTPResponse") => jee_state = StateNone

C5_Witness ==
    /\ Returned("post_event")
    /\ response = "HTTPResponse"
    /\ ret.text = PyStr("")
    /\ jee_state = StateNone

(***************************************************************************)
(* C6.  A post_event that follows a successful post_event, with no         *)
(* get_question between them, sends no request.                            *)
(***************************************************************************)
SecondPost ==
    /\ method = "POST"
    /\ prev = [ op |-> "post_event", response |-> "HTTPResponse" ]

C6_NoSecondPost == SecondPost => (pc = "idle" /\ http = <<>>)

C6_Witness == SecondPost /\ Returned("post_event") /\ ret.kind = "text"

(***************************************************************************)
(* C7.  A response to the question request that is malformed or has no     *)
(* usable state makes get_question return False with the state in Error.   *)
(***************************************************************************)
MalformedBody(body) ==
    \/ body.form \in {"bytes", "text", "value"}
    \/ /\ body.form = "object"
       /\ \/ body.state.t \in {"absent", "null", "int", "bool", "list"}
          \/ body.state.t = "str" /\ body.state.inner # "dict"

QuestionAnswered ==
    /\ Returned("get_question")
    /\ response = "HTTPResponse"

C7_MalformedIsError ==
    (QuestionAnswered /\ MalformedBody(LastAttempt.body)) =>
        (ret = RetBool("get_question", FALSE) /\ jee_state.kind = "Error")

(***************************************************************************)
(* C8.  A question request that fails by transport failure on every        *)
(* attempt, or by a status >= 400, makes get_question return False with    *)
(* the state in Error; for status 401 the error is the Unauthorized one.   *)
(***************************************************************************)
C8_FailedFetchIsError ==
    (Returned("get_question") /\ RequestFailed) =>
        /\ ret = RetBool("get_question", FALSE)
        /\ jee_state.kind = "Error"
        /\ (IsErrorStatus(LastAttempt) /\ LastAttempt.status = 401) =>
              jee_state.text = ErrorText(401, LangGet("ERROR_401", "Authentication error"))

C8_Witness ==
    /\ Returned("get_question")
    /\ RequestFailed
    /\ IsErrorStatus(LastAttempt)
    /\ LastAttempt.status = 401
    /\ jee_state.kind = "Error"

(***************************************************************************)
(* C9.  A question response whose `state` is an object with at least one   *)
(* key makes get_question return True and the state Active, its fields     *)
(* taken from event, text, the coerced suppress_confirmation,              *)
(* deviceSerialNumber and textBrut (None for a key that is absent).        *)
(***************************************************************************)
ExampleObject ==
    [ event |-> PyStr("42"), text |-> PyStr("Turn on the light?"),
      suppress_confirmation |-> PyChars(<<"n","o">>),
      deviceSerialNumber |-> Absent, textBrut |-> Absent ]

StateIsObject ==
    /\ QuestionAnswered
    /\ LastAttempt.body.form = "object"
    /\ LastAttempt.body.state.t = "dict"

FieldOf(v) == IF v = Absent THEN PyNone ELSE v

ActiveFrom(o) ==
    /\ ret = RetBool("get_question", TRUE)
    /\ jee_state.kind = "Active"
    /\ jee_state.event_id = FieldOf(o.event)
    /\ jee_state.text = FieldOf(o.text)
    /\ jee_state.deviceSerialNumber = FieldOf(o.deviceSerialNumber)
    /\ jee_state.textBrut = FieldOf(o.textBrut)
    /\ jee_state.suppress_confirmation = (o.suppress_confirmation \in {PyChars(<<"Y","e","s">>), PyBool(TRUE)})
    /\ o = ExampleObject =>
          jee_state = QuestionState(PyStr("42"), FALSE, PyStr("Turn on the light?"), PyNone, PyNone)

\* The claim as stated: for every object.
C9_ObjectIsActive == StateIsObject => ActiveFrom(LastAttempt.body.state.obj)

\* The claim for the objects that have a key.
C9_NonEmptyObjectIsActive ==
    (StateIsObject /\ LastAttempt.body.state.obj # EmptyObject) =>
        ActiveFrom(LastAttempt.body.state.obj)

C9_Witness ==
    /\ StateIsObject
    /\ LastAttempt.body.state.obj = ExampleObject
    /\ jee_state = QuestionState(PyStr("42"), FALSE, PyStr("Turn on the light?"), PyNone, PyNone)

(***************************************************************************)
(* C10.  A successful post_event returns the acknowledgment string, which  *)
(* is not empty, when the posted question's suppress_confirmation is       *)
(* false, and the empty string when it is true.                            *)
(***************************************************************************)
PostSucceedsStep ==
    /\ pc = "request"
    /\ method = "POST"
    /\ pc' = "idle"
    /\ response' = "HTTPResponse"

C10_Acknowledgment ==
    [][PostSucceedsStep =>
          /\ ret'.kind = "text"
          /\ ~jee_state.suppress_confirmation =>
                (ret'.text = PyStr(LangGet("OKAY", "OK")) /\ Truthy(ret'.text))
          /\ jee_state.suppress_confirmation => ret'.text = PyStr("")]_vars

C10_Witness ==
    /\ Returned("post_event")
    /\ response = "HTTPResponse"
    /\ ret.text = PyStr(LangGet("OKAY", "OK"))
    /\ Truthy(ret.text)

(***************************************************************************)
(* C12.  The k-th time.sleep of a call is given RETRY_DELAY * k, so the    *)
(* delays grow strictly when RETRY_DELAY > 0; a sleep follows each failed  *)
(* attempt but the last one allowed, after which the call returns None     *)
(* without sleeping.                                                       *)
(***************************************************************************)
TransportFailureCount == Len(SelectSeq(Attempts, IsTransportFailure))

Min(a, b) == IF a < b THEN a ELSE b

EndedInErrorStatus == Len(Attempts) > 0 /\ IsErrorStatus(LastAttempt)

\* The request of the current call has ended in a transport failure of its last attempt.
EndedInTransportFailure ==
    Len(Attempts) > 0 /\ IsTransportFailure(LastAttempt) /\ pc = "idle" /\ response = "None"

BadRequestMessage == LangGet("ERROR_400", "Request error")

C14_NeverPropagates ==
    /\ response # "raise"
    /\ (pc = "idle" /\ Len(Attempts) > 0 /\ response # "HTTPResponse") =>
          (response = "None" /\ jee_state.kind = "Error")

(***************************************************************************)
(* C15.  get_question and post_event always return to their caller, with   *)
(* a boolean or a text, and never by raising.                              *)
(***************************************************************************)
C15_NeverRaises ==
    /\ ret.kind # "raise"
    /\ Returned("get_question") => ret.kind = "bool"
    /\ Returned("post_event") => ret.kind = "text"

(***************************************************************************)
(* C16.  Failures and the log sink.                                        *)
(***************************************************************************)
IsFailure(r) == IsTransportFailure(r) \/ IsErrorStatus(r)

FailureCount == Len(SelectSeq(Attempts, IsFailure))

\* As claimed: post_log is called for every failure, the transport failure of
\* an attempt that is retried included.
C16_EveryFailureLogged == Len(logs) = FailureCount

\* As the code has it: post_log is called once for the failure that ends the
\* call (a status >= 400, or the transport failure of the last attempt) and not
\* for a transport failure that is retried; whatever the log call returns, the
\* call ends as the failure decides.
C16_FinalFailureLogged ==
    /\ pc = "request" => logs = <<>>
    /\ (pc = "idle" /\ RequestFailed) =>
          /\ Len(logs) = 1
          /\ jee_state.kind = "Error"
          /\ ret.kind # "raise"
          /\ method = "GET" => ret = RetBool("get_question", FALSE)
          /\ method = "POST" => ret = RetText("post_event", jee_state.text)

C16_Witness ==
    /\ pc = "idle"
    /\ RequestFailed
    /\ IsErrorStatus(LastAttempt)
    /\ LastAttempt.status = 500
    /\ Len(logs) = 1
    /\ Len(logs[1].sent) = 1
    /\ logs[1].sent[1].res = "exception"
    /\ ~logs[1].result
    /\ ret = RetBool("get_question", FALSE)

(***************************************************************************)
(* C17.  A post_log call sends at most one request, outside the retry      *)
(* loop, does not raise, and returns False when that request fails by an   *)
(* exception or by a status >= 400.                                        *)
(***************************************************************************)
IsLogRequest(r) == r.url = "log"

C17_SingleLogAttempt ==
    /\ \A i \in 1..Len(logs) :
          /\ Len(logs[i].sent) <= 1
          /\ \A j \in 1..Len(logs[i].sent) :
                /\ IsLogRequest(logs[i].sent[j])
                /\ (logs[i].sent[j].res = "exception" \/ logs[i].sent[j].status >= 400) =>
                      ~logs[i].result
    /\ Len(SelectSeq(http, IsLogRequest)) <= Len(logs)
    /\ Len(Attempts) + Len(SelectSeq(http, IsLogRequest)) = Len(http)
    /\ Len(Attempts) <= attempt + 1
    /\ Len(logs) > 0 => (pc = "idle" /\ ret.kind # "raise")

C17_Witness ==
    /\ Len(logs) = 1
    /\ Len(logs[1].sent) = 1
    /\ logs[1].sent[1].res = "response"
    /\ logs[1].sent[1].status = 500
    /\ ~logs[1].result
    /\ pc = "idle"

(***************************************************************************)
(* C11  In the body post_event builds, event_id, event_response and        *)
(* event_response_type hold the active question's event id, the answer     *)
(* value and the answer type, whatever extra fields the caller passes.     *)
(* Refuted: body.update(kwargs) lets an extra field of the same name       *)
(* replace each of the three.                                              *)
(***************************************************************************)
C11_AnswerFieldsFixed ==
    pure.fn = "post_event" =>
        /\ pure.body["event_id"] = pure.st.event_id
        /\ pure.body["event_response"] = pure.response
        /\ pure.body["event_response_type"] = pure.response_type

C19_ListedInputs ==
    pure.fn = "_string_to_bool" =>
        /\ pure.arg \in { PyChars(<<"t","r","u","e">>), PyChars(<<"1">>),
                          PyChars(<<"y","e","s">>), PyChars(<<"T","R","U","E">>) }
              => pure.out = PyBool(TRUE)
        /\ pure.arg \in { PyChars(<<"f","a","l","s","e">>), PyChars(<<>>), PyChars(<<"0">>),
                          PyNone, PyInt(42), PyChars(<<"n","o">>) }
              => pure.out = PyBool(FALSE)

C19_Witness ==
    /\ pure.fn = "_string_to_bool"
    /\ pure.arg = PyChars(<<"T","R","U","E">>)
    /\ pure.out = PyBool(TRUE)

\* Two strings equal up to the case of their letters.
SameIgnoringCase(a, b) ==
    /\ Len(a) = Len(b)
    /\ \A i \in 1..Len(a) : a[i] = b[i] \/ UpperChar(a[i]) = b[i] \/ a[i] = UpperChar(b[i])

\* v is a string spelling "true", "1", "yes" or "oui" in any case.
IsAffirmativeString(v) ==
    /\ v.t = "str"
    /\ \E tok \in { <<"t","r","u","e">>, <<"1">>, <<"y","e","s">>, <<"o","u","i">> } :
          SameIgnoringCase(v.cs, tok)

(***************************************************************************)
(* C20  As stated: the coercion is true only for a string that equals an   *)
(* affirmative token up to case, and false for everything else, every      *)
(* non-string value included.  Refuted by the boolean true.                *)
(***************************************************************************)
C20_TrueOnlyForStrings ==
    pure.fn = "_string_to_bool" =>
        (pure.out = PyBool(TRUE) => IsAffirmativeString(pure.arg))

(***************************************************************************)
(* C20, amended: the coercion is true exactly for the boolean true and for *)
(* a string that equals "true", "1", "yes" or "oui" up to case; it is      *)
(* false for everything else: an absent field, null, a number, the boolean *)
(* false, and any other string (a padded token included).                  *)
(***************************************************************************)
C20_TrueForBoolOrToken ==
    pure.fn = "_string_to_bool" =>
        (pure.out = PyBool(TRUE) <=> (pure.arg = PyBool(TRUE) \/ IsAffirmativeString(pure.arg)))

C20_Witness ==
    /\ pure.fn = "_string_to_bool"
    /\ pure.arg = PyBool(TRUE)
    /\ pure.out = PyBool(TRUE)

(***************************************************************************)
(* C21  An answer request is under way only for a state that is Active and *)
(* carries an event id.  Refuted: line 244 tests the kind of the state     *)
(* only, and an Active state built from a hub state with no `event` has    *)
(* event_id None.                                                          *)
(***************************************************************************)
C21_EventIdRequired ==
    (method = "POST" /\ pc = "request") =>
        (jee_state.kind = "Active" /\ jee_state.event_id # PyNone)

(***************************************************************************)
(* C22  post_event called in state Error returns the message of that Error *)
(* state.  Refuted: it returns the ERROR_CONFIG string.                    *)
(***************************************************************************)
C22_ReturnsCachedError ==
    [][(PostCallStep /\ jee_state.kind = "Error") =>
          (ret'.kind = "text" /\ ret'.text = jee_state.text)]_vars

(***************************************************************************)
(* C23  post_event called in state None or Error returns in that step and  *)
(* leaves the state as it was: None stays None, Error keeps its message.   *)
(***************************************************************************)
C23_NoValidStateNoOp ==
    [][(PostCallStep /\ jee_state.kind \in {"None", "Error"}) =>
          /\ pc' = "idle"
          /\ ret'.op = "post_event"
          /\ jee_state' = jee_state]_vars

C23_Witness ==
    /\ Returned("post_event")
    /\ response = "none"
    /\ jee_state.kind = "Error"
    /\ jee_state.text = ErrorText(404, LangGet("ERROR_404", "Resource not found"))
    /\ prev = [ op |-> "get_question", response |-> "None" ]

C25_EveryCallReturns ==
    /\ [](Len(Attempts) > 0 => Len(Attempts) <= MAX_RETRIES)
    /\ (pc = "request") ~> (pc = "idle" /\ ret.op = Op)

C25_Witness ==
    /\ Returned("get_question")
    /\ MAX_RETRIES = MaxRetriesCfg
    /\ Len(Attempts) = MAX_RETRIES
    /\ AllTransportFailures
    /\ Len(slept) = MAX_RETRIES - 1
    /\ ret = RetBool("get_question", FALSE)

(***************************************************************************)
(* C26  The state is always exactly one of None, Active and Error, and it  *)
(* is None right after construction.  It becomes Active, or another Active *)
(* question, only in the step in which a get_question returns True, and    *)
(* such a step always leaves it Active; a post that got a response and a   *)
(* request that failed never leave it Active.                              *)
(***************************************************************************)
OneStateKind ==
    \/ jee_state = StateNone
    \/ \E text \in {jee_state.text} : jee_state = QuestionStateError(text)
    \/ /\ jee_state.kind = "Active"
       /\ jee_state.suppress_confirmation \in BOOLEAN

FetchReturnsTrueStep ==
    /\ pc = "request"
    /\ method = "GET"
    /\ pc' = "idle"
    /\ response' = "HTTPResponse"
    /\ ret' = RetBool("get_question", TRUE)

RequestEndsStep == pc = "request" /\ pc' = "idle"

StateIsEncodedObject ==
    /\ QuestionAnswered
    /\ LastAttempt.body.form = "object"
    /\ LastAttempt.body.state.t = "str"
    /\ LastAttempt.body.state.inner = "dict"

\* The response body whose `state` is the object o itself.
BodyWithObject(o) == Body("object", StateField("dict", DictTruthy(o), "none", o))

C29_EncodedLikeObject ==
    StateIsEncodedObject =>
        [ st |-> jee_state, r |-> ret ]
            = ParseQuestion(BodyWithObject(LastAttempt.body.state.obj), StateNone)

(***************************************************************************)
(* C30  What get_question returns and the state it leaves are determined   *)
(* by the hub's answer to that call, whatever the state was before: the    *)
(* Error of the failure for a request that failed, and for a response what *)
(* its body gives on a client in any state.  Refuted by a body that is not *)
(* UTF-8: the call raises and the state stays what it was.                 *)
(***************************************************************************)
\* States a client may hold before the call.
EarlierStates ==
    { StateNone,
      QuestionStateError(PyStr("Network error")),
      QuestionState(PyStr("7"), TRUE, PyStr("Volume?"), PyNone, PyNone) }

C30_FetchReplacesState ==
    (Returned("get_question") /\ Len(Attempts) > 0) =>
        /\ response = "None" => (jee_state.kind = "Error" /\ ret = RetBool("get_question", FALSE))
        /\ response = "HTTPResponse" =>
              \A before \in EarlierStates :
                  [ st |-> jee_state, r |-> ret ] = ParseQuestion(LastAttempt.body, before)

(***************************************************************************)
(* C27  As stated: the answer body has event_person_id exactly when the    *)
(* invocation carries a person, with that person's id.  Refuted by a       *)
(* caller that passes event_person_id as an extra field when no person is  *)
(* recognised.                                                             *)
(***************************************************************************)
C27_PersonIdExactly ==
    pure.fn = "post_event" =>
        /\ "event_person_id" \in DOMAIN pure.body <=> Truthy(pure.person)
        /\ Truthy(pure.person) => pure.body["event_person_id"] = pure.person

(***************************************************************************)
(* C27, amended: when the invocation carries a person the body has         *)
(* event_person_id with that person's id, whatever the extra fields hold;  *)
(* when it carries none, the body has event_person_id only if the caller   *)
(* passed it as an extra field, with the caller's value.                   *)
(***************************************************************************)
C27_PersonIdAdded ==
    pure.fn = "post_event" =>
        /\ Truthy(pure.person) =>
              /\ "event_person_id" \in DOMAIN pure.body
              /\ pure.body["event_person_id"] = pure.person
        /\ ~Truthy(pure.person) =>
              /\ "event_person_id" \in DOMAIN pure.body <=> "event_person_id" \in DOMAIN pure.kwargs
              /\ "event_person_id" \in DOMAIN pure.kwargs =>
                    pure.body["event_person_id"] = pure.kwargs["event_person_id"]

C27_Witness ==
    /\ pure.fn = "post_event"
    /\ pure.person = PyStr("amzn1.ask.person.P1")
    /\ "event_person_id" \in DOMAIN pure.kwargs
    /\ pure.body["event_person_id"] = pure.person

(***************************************************************************)
(* C28  The headers built for a request of get_question, post_event and    *)
(* post_log hold Content-Type and Accept with application/json, and        *)
(* Authorization, with Bearer and the token, exactly when the client holds *)
(* a token.  The token is the configured TOKEN when that is not empty,     *)
(* otherwise the result of one account-linking lookup made at              *)
(* construction, None when the lookup raises or there is no handler input; *)
(* building headers makes no further lookup and leaves the token as it is. *)
(***************************************************************************)
C28_HeadersAndToken ==
    pure.fn \in { "__init__", "_get_headers" } =>
        /\ pure.token =
              IF pure.TOKEN # "" THEN PyStr(pure.TOKEN)
              ELSE IF ~pure.handler_input \/ pure.lookup.t = "raise" THEN PyNone
              ELSE pure.lookup
        /\ pure.lookups = IF pure.TOKEN = "" /\ pure.handler_input THEN 1 ELSE 0
        /\ pure.fn = "_get_headers" =>
              /\ { "Content-Type", "Accept" } \subseteq DOMAIN pure.headers
              /\ pure.headers["Content-Type"] = << "application/json" >>
              /\ pure.headers["Accept"] = << "application/json" >>
              /\ "Authorization" \in DOMAIN pure.headers <=> pure.token # PyNone
              /\ "Authorization" \in DOMAIN pure.headers =>
                    pure.headers["Authorization"] = << "Bearer ", pure.token.s >>

C28_Witness ==
    /\ pure.fn = "_get_headers"
    /\ pure.op = "post_log"
    /\ pure.TOKEN = ""
    /\ pure.lookups = 1
    /\ pure.token = PyStr("Atza|linked")
    /\ pure.headers["Authorization"] = << "Bearer ", "Atza|linked" >>

(***************************************************************************)
(* C31  A post_event called in an Active state enters the retry loop, and  *)
(* when it has returned its answer request has been transmitted at least   *)
(* once and at most MAX_RETRIES times.  Every transmission carries the     *)
(* event id of the question being answered, and every transmission but the *)
(* last met a transport failure: the answer is sent again after a failure  *)
(* such as a read timeout.                                                 *)
(***************************************************************************)
AnswerCallReturned == Returned("post_event") /\ response # "none"

C32_LogAtMostOnce ==
    /\ Len(logs) <= 1
    /\ Len(logs) = 1 <=>
          /\ Len(Attempts) > 0
          /\ \/ IsErrorStatus(LastAttempt)
             \/ IsTransportFailure(LastAttempt) /\ Len(Attempts) = MAX_RETRIES

C32_Witness ==
    /\ pc = "idle"
    /\ MAX_RETRIES = 2
    /\ Len(Attempts) = 2
    /\ AllTransportFailures
    /\ Len(logs) = 1
    /\ Len(logs[1].sent) = 1
    /\ logs[1].result

(***************************************************************************)
(* C33  An attempt that raises an exception other than a transport failure *)
(* is the last attempt of its call: the call has returned None with the    *)
(* state Error holding the general error message, however many attempts    *)
(* were left.                                                              *)
(***************************************************************************)
IsOtherException(r) == r.res = "exception"

C33_ExceptionNotRetried ==
    \A i \in 1..Len(Attempts) :
        IsOtherException(Attempts[i]) =>
            /\ i = Len(Attempts)
            /\ pc = "idle"
            /\ response = "None"
            /\ jee_state = QuestionStateError(PyStr(LangGet("ERROR_GENERAL", "An error occurred")))

C33_Witness ==
    /\ MAX_RETRIES = 3
    /\ method = "POST"
    /\ Len(Attempts) = 2
    /\ IsTransportFailure(Attempts[1])
    /\ IsOtherException(Attempts[2])
    /\ pc = "idle"
    /\ jee_state.kind = "Error"

C35_LogKeepsState == pure.fn = "post_log" => pure.after = pure.st

C35_Witness ==
    /\ pure.fn = "post_log"
    /\ pure.st.kind = "Active"
    /\ Len(pure.sent) = 1
    /\ pure.sent[1].res = "exception"
    /\ pure.out = PyBool(FALSE)
    /\ pure.after = pure.st

(***************************************************************************)
(* The request handlers (handlers/core_handlers.py, data_handlers.py,      *)
(* device_handlers.py, scenario_handlers.py, error_handlers.py).  Each     *)
(* invocation builds its own JeedomClient; `pure` holds the invocation and *)
(* the response it built.  The handler modules name the client as          *)
(* lambda.utils.jeedom_client0.JeedomClient; the handlers are modelled as  *)
(* written, with that name bound to the client above.  The JeedomLogger    *)
(* calls of the handlers send nothing (see log_to_jeedom) and raise        *)
(* nothing, and are left out.  The handler classes are modelled whether    *)
(* lambda_function.py registers them or not (it leaves out the list and    *)
(* stop scenario handlers and NetworkExceptionHandler).                    *)
(***************************************************************************)
LaunchHandlers == { "LaunchRequestHandler" }

\* The handlers that call get_question and then post_event.
AnswerHandlers ==
    { "YesIntentHandler", "NoIntentHandler", "FallbackHandler",
      "NumericIntentHandler", "StringIntentHandler", "SelectIntentHandler",
      "DurationIntentHandler", "DateTimeIntentHandler",
      "ControlDeviceIntentHandler", "GetStatusIntentHandler", "SetValueIntentHandler",
      "ActivateScenarioIntentHandler", "ListScenariosIntentHandler",
      "StopScenarioIntentHandler", "SessionEndedRequestHandler" }

\* ask_sdk_model.SessionEndedReason.
SessionEndedReasons == { "USER_INITIATED", "ERROR", "EXCEEDED_MAX_REPROMPTS" }

\* The exception handlers that answer with a text of their own.
ExceptionHandlers == { "CatchAllExceptionHandler", "NetworkExceptionHandler" }

\* The exceptions given to an exception handler, by type name.
ExceptionTypes == { "TimeoutError", "ValueError", "UnicodeDecodeError" }

\* The slot checks a handler makes before it builds its client: a required
\* slot missing, a value that does not parse.
SlotChecks(h) ==
    CASE h \in { "NumericIntentHandler", "StringIntentHandler", "SelectIntentHandler",
                 "DateTimeIntentHandler", "ControlDeviceIntentHandler",
                 "GetStatusIntentHandler", "ActivateScenarioIntentHandler",
                 "StopScenarioIntentHandler" } -> { "missing" }
      [] h \in { "DurationIntentHandler", "SetValueIntentHandler" } -> { "missing", "invalid" }
      [] OTHER -> {}

\* The key of the text spoken when a slot check fails.
SlotErrorKey(h, slots) ==
    CASE h = "NumericIntentHandler" -> "ERROR_NO_NUMBER"
      [] h = "StringIntentHandler" -> "ERROR_NO_STRING"
      [] h = "SelectIntentHandler" -> "ERROR_NO_SELECTION"
      [] h = "DurationIntentHandler" ->
            IF slots = "missing" THEN "ERROR_NO_DURATION" ELSE "ERROR_INVALID_DURATION"
      [] h = "DateTimeIntentHandler" -> "ERROR_NO_DATETIME"
      [] h = "ControlDeviceIntentHandler" -> "ERROR_MISSING_SLOTS"
      [] h = "GetStatusIntentHandler" -> "ERROR_NO_DEVICE"
      [] h = "SetValueIntentHandler" ->
            IF slots = "missing" THEN "ERROR_MISSING_VALUE" ELSE "ERROR_INVALID_VALUE"
      [] OTHER -> "ERROR_MISSING_SCENARIO"

\* The key of the text a handler speaks in place of an empty or "OK" answer text.
FallbackTextKey(h) ==
    CASE h = "SelectIntentHandler" -> "SELECTED"
      [] h = "ControlDeviceIntentHandler" -> "DEVICE_CONTROL_SUCCESS"
      [] h = "SetValueIntentHandler" -> "SET_VALUE_SUCCESS"
      [] h = "ActivateScenarioIntentHandler" -> "SCENARIO_ACTIVATED"
      [] h = "StopScenarioIntentHandler" -> "SCENARIO_STOPPED"
      [] OTHER -> ""

\* The key given to error_response by a handler's except clause.
ExceptKey(h) ==
    CASE h = "ControlDeviceIntentHandler" -> "ERROR_DEVICE_CONTROL"
      [] h = "GetStatusIntentHandler" -> "ERROR_STATUS_QUERY"
      [] h = "SetValueIntentHandler" -> "ERROR_SET_VALUE"
      [] h = "ActivateScenarioIntentHandler" -> "ERROR_SCENARIO"
      [] h = "ListScenariosIntentHandler" -> "ERROR_SCENARIO_LIST"
      [] h = "StopScenarioIntentHandler" -> "ERROR_SCENARIO_STOP"
      [] OTHER -> "ERROR_GENERAL"

\* One request to the skill: the handler chosen for it and what it is given.
Invocation(h, slots, reason, exception) ==
    [ handler |-> h, slots |-> slots, reason |-> reason, exception |-> exception ]

Invocations ==
    { Invocation(h, "ok", "none", "none") : h \in LaunchHandlers }
      \cup { Invocation(h[1], h[2], "none", "none") :
                h \in { x \in (AnswerHandlers \ { "SessionEndedRequestHandler" })
                                  \X { "ok", "missing", "invalid" } :
                           x[2] = "ok" \/ x[2] \in SlotChecks(x[1]) } }
      \cup { Invocation("SessionEndedRequestHandler", "ok", r, "none") : r \in SessionEndedReasons }
      \cup { Invocation(h, "ok", "none", e) : h \in ExceptionHandlers, e \in ExceptionTypes }

\* handler_input.response_builder.response with nothing set.
EmptyResponse == [ speech |-> PyNone, reprompt |-> PyNone, should_end_session |-> PyNone ]

\* No handler has been invoked yet.
HandlerIdle ==
    [ handler |-> "none", slots |-> "ok", reason |-> "none", exception |-> "none",
      phase |-> "idle", response |-> EmptyResponse ]

\* ResponseBuilder.get_text: the localized text of a key, or the default.
get_text(key, default) == PyStr(LangGet(key, default))

\* ResponseBuilder.build leaving should_end_session as it was given.
build_keeps_flag(speech, reprompt, should_end_session) ==
    [ speech |-> speech,
      reprompt |-> IF Truthy(reprompt) THEN reprompt ELSE PyNone,
      should_end_session |-> PyBool(should_end_session) ]

\* ResponseBuilder.build (lines 62-91): speech, reprompt and session flag of the response.
build(speech, reprompt, should_end_session) ==
    [ speech |-> speech,
      reprompt |-> IF Truthy(reprompt) THEN reprompt ELSE PyNone,
      should_end_session |-> PyBool(IF Truthy(reprompt) THEN FALSE ELSE should_end_session) ]

\* ResponseBuilder.error_response (lines 110-123).
error_response(error_key, custom_message) ==
    build(IF Truthy(custom_message) THEN custom_message
          ELSE get_text(error_key, "Une erreur s'est produite"),
          PyNone, TRUE)

\* SessionEndedRequestHandler answering whatever the reason.
SessionEndedPosts_any_reason(reason) == reason \in SessionEndedReasons

\* core_handlers.py lines 211-212: the end reasons for which ResponseNone is posted.
SessionEndedPosts(reason) == reason \in { "EXCEEDED_MAX_REPROMPTS", "USER_INITIATED" }

\* The handler returns without a call on a client.
ReturnsAtOnce(inv) ==
    \/ inv.handler \in ExceptionHandlers
    \/ inv.slots \in SlotChecks(inv.handler)
    \/ inv.handler = "SessionEndedRequestHandler" /\ ~SessionEndedPosts(inv.reason)

\* error_handlers.py lines 68-92: the key of an exception type.
ErrorKey(exception_type) ==
    CASE exception_type = "TimeoutError" -> "ERROR_TIMEOUT"
      [] exception_type = "ValueError" -> "ERROR_INVALID_VALUE"
      [] OTHER -> "ERROR_GENERAL"

\* CatchAllExceptionHandler._get_error_message (lines 56-94) on a client in state st.
_get_error_message(st, exception_type) ==
    IF st.kind # "None" /\ Truthy(st.text)
    THEN st.text
    ELSE get_text(ErrorKey(exception_type), "")

\* A client kept from one invocation to the next.
JeedomClient_shared ==
    UNCHANGED << jee_state, pc, method, attempt, response, http, ret, prev, slept, logs >>

\* jeedom = JeedomClient(handler_input): the invocation's own client.
JeedomClient ==
    /\ jee_state' = StateNone
    /\ pc' = "idle"
    /\ method' = "GET"
    /\ attempt' = 0
    /\ response' = "none"
    /\ http' = <<>>
    /\ ret' = RetNone
    /\ prev' = [ op |-> "none", response |-> "none" ]
    /\ slept' = <<>>
    /\ logs' = <<>>

\* What a handler that builds no client, or only builds it, answers.
ResponseAtOnce(inv, st) ==
    IF inv.handler = "CatchAllExceptionHandler"
    THEN [ speech |-> _get_error_message(st, inv.exception), reprompt |-> PyNone,
           should_end_session |-> PyBool(TRUE) ]
    ELSE IF inv.handler = "NetworkExceptionHandler"
    THEN build(get_text("ERROR_NETWORK", ""), get_text("ERROR_NETWORK_REPROMPT", ""), TRUE)
    ELSE IF inv.handler = "SessionEndedRequestHandler"
    THEN EmptyResponse
    ELSE build(get_text(SlotErrorKey(inv.handler, inv.slots), ""), PyNone, FALSE)

\* LaunchRequestHandler.handle after get_question has returned r (lines 30-60).
LaunchResponse(r, st) ==
    IF r.kind = "raise" THEN error_response("ERROR_GENERAL", PyNone)
    ELSE IF ~r.b
    THEN error_response("ERROR_CONFIG", PyStr("Impossible de se connecter a Jeedom"))
    ELSE build(st.text,
               IF Truthy(st.event_id) THEN st.text ELSE PyNone,
               ~Truthy(st.event_id))

\* An answer handler after post_event has returned r, or get_question has raised.
AnswerResponse(h, r) ==
    IF h = "SessionEndedRequestHandler" THEN EmptyResponse
    ELSE IF r.kind = "raise" THEN error_response(ExceptKey(h), PyNone)
    ELSE IF h = "FallbackHandler"
    THEN build(get_text("FALLBACK_MESSAGE", ""), get_text("FALLBACK_REPROMPT", ""), FALSE)
    ELSE IF FallbackTextKey(h) # "" /\ (~Truthy(r.text) \/ r.text = PyStr("OK"))
    THEN build(get_text(FallbackTextKey(h), ""), PyNone, TRUE)
    ELSE build(r.text, PyNone, TRUE)

\* A request reaches a handler, which returns at once or builds its client.
handle ==
    /\ pc = "idle"
    /\ pure.phase \in { "idle", "done" }
    /\ JeedomClient
    /\ \E inv \in Invocations :
          pure' = [ handler |-> inv.handler, slots |-> inv.slots, reason |-> inv.reason,
                    exception |-> inv.exception,
                    phase |-> IF ReturnsAtOnce(inv) THEN "done" ELSE "client",
                    response |-> IF ReturnsAtOnce(inv)
                                 THEN ResponseAtOnce(inv, jee_state') ELSE EmptyResponse ]
    /\ UNCHANGED Config

\* jeedom.get_question() of a handler.
handler_get_question ==
    /\ pure.phase = "client"
    /\ ret.op = "none"
    /\ get_question

\* jeedom.post_event(...) of an answer handler, after its get_question returned.
handler_post_event ==
    /\ pure.phase = "client"
    /\ pure.handler \in AnswerHandlers
    /\ Returned("get_question")
    /\ ret.kind # "raise"
    /\ post_event

\* LaunchRequestHandler builds its response.
launch_return ==
    /\ pure.phase = "client"
    /\ pure.handler \in LaunchHandlers
    /\ Returned("get_question")
    /\ pure' = [ pure EXCEPT !.phase = "done", !.response = LaunchResponse(ret, jee_state) ]
    /\ UNCHANGED ClientVars

\* An answer handler builds its response.
answer_return ==
    /\ pure.phase = "client"
    /\ pure.handler \in AnswerHandlers
    /\ Returned("post_event") \/ (Returned("get_question") /\ ret.kind = "raise")
    /\ pure' = [ pure EXCEPT !.phase = "done", !.response = AnswerResponse(pure.handler, ret) ]
    /\ UNCHANGED ClientVars

\* The retry configurations the handlers are run with.
HandlerRetryConfigs == { 0, 1, 2 }

InitHandlers ==
    /\ MAX_RETRIES \in HandlerRetryConfigs
    /\ CAN_POST_LOGS \in BOOLEAN
    /\ RETRY_DELAY = DefaultRetryDelay
    /\ language_strings \in LanguageTables
    /\ Constructed
    /\ pure = HandlerIdle

NextHandlers ==
    \/ handle
    \/ handler_get_question
    \/ attempt_transport_failure
    \/ attempt_exception
    \/ attempt_response
    \/ handler_post_event
    \/ launch_return
    \/ answer_return

SpecHandlers == InitHandlers /\ [][NextHandlers]_vars

(***************************************************************************)
(* C36  An answer handler calls post_event once its get_question has       *)
(* returned, and that call sends a request to the answer endpoint exactly  *)
(* when the get_question returned True; after False it sends none and      *)
(* returns the configuration error text.  Every request to the answer      *)
(* endpoint follows a get_question of the same invocation that was         *)
(* answered by the hub.                                                    *)
(***************************************************************************)
HandlerPostStep == pure.phase = "client" /\ method = "GET" /\ method' = "POST"

IsAnswerRequest(r) == r.url = "answer"

C36_AnswerOnlyAfterQuestion ==
    /\ [][HandlerPostStep =>
             /\ pure.handler \in AnswerHandlers
             /\ ret.op = "get_question"
             /\ ret.kind = "bool"
             /\ pc' = "request" <=> ret.b
             /\ ~ret.b =>
                   /\ pc' = "idle"
                   /\ http' = <<>>
                   /\ ret' = RetText("post_event", PyStr(LangGet("ERROR_CONFIG", "Error")))]_vars
    /\ [](\A i \in 1..Len(http) :
             IsAnswerRequest(http[i]) =>
                 /\ pure.handler \in AnswerHandlers
                 /\ method = "POST"
                 /\ prev = [ op |-> "get_question", response |-> "HTTPResponse" ])

C36_Witness ==
    /\ pure.handler = "NumericIntentHandler"
    /\ pure.phase = "done"
    /\ Returned("post_event")
    /\ prev = [ op |-> "get_question", response |-> "None" ]
    /\ http = <<>>
    /\ jee_state.kind = "Error"
    /\ ret.text = PyStr(LangGet("ERROR_CONFIG", "Error"))
    /\ pure.response.speech = ret.text

KeptOpen(r) == Truthy(r.reprompt) /\ r.should_end_session = PyBool(FALSE)

LaunchDone == pure.handler \in LaunchHandlers /\ pure.phase = "done"

QuestionWithEvent == ret = RetBool("get_question", TRUE) /\ Truthy(jee_state.event_id)

(***************************************************************************)
(* C37  The response of LaunchRequestHandler has should_end_session false  *)
(* exactly when get_question returned True and the question has a          *)
(* non-empty event id, and has a reprompt exactly when the question has a  *)
(* non-empty text as well; a response built with a reprompt never ends the *)
(* session, whatever flag its handler gave.                                *)
(***************************************************************************)
C37_LaunchFlagFollowsEvent ==
    /\ LaunchDone =>
          /\ pure.response.should_end_session = PyBool(~QuestionWithEvent)
          /\ Truthy(pure.response.reprompt) <=> (QuestionWithEvent /\ Truthy(jee_state.text))
    /\ Truthy(pure.response.reprompt) => pure.response.should_end_session = PyBool(FALSE)

C37_Witness ==
    /\ LaunchDone
    /\ QuestionWithEvent
    /\ ~Truthy(jee_state.text)
    /\ pure.response.reprompt = PyNone
    /\ pure.response.should_end_session = PyBool(FALSE)

\* As claimed: reprompt and open session together, exactly when the question
\* has an event id.
C37_LaunchKeptOpenIffEvent ==
    /\ LaunchDone =>
          /\ KeptOpen(pure.response) <=> QuestionWithEvent
          /\ ~QuestionWithEvent => pure.response.should_end_session = PyBool(TRUE)
    /\ Truthy(pure.response.reprompt) => pure.response.should_end_session = PyBool(FALSE)

(***************************************************************************)
(* C38  SessionEndedRequestHandler calls get_question and post_event only  *)
(* for the end reasons EXCEEDED_MAX_REPROMPTS and USER_INITIATED: for any  *)
(* other reason it returns with no client call made and no request sent.   *)
(***************************************************************************)
SessionEnded == pure.handler = "SessionEndedRequestHandler"

C38_SessionEndedPosts ==
    /\ (SessionEnded /\ pure.reason \notin { "EXCEEDED_MAX_REPROMPTS", "USER_INITIATED" }) =>
          /\ pure.phase = "done"
          /\ pc = "idle"
          /\ ret.op = "none"
          /\ http = <<>>
    /\ (SessionEnded /\ pure.reason \in { "EXCEEDED_MAX_REPROMPTS", "USER_INITIATED" }
                     /\ pure.phase = "done") =>
          ret.op \in { "get_question", "post_event" }

C38_Witness ==
    /\ SessionEnded
    /\ pure.reason = "USER_INITIATED"
    /\ pure.phase = "done"
    /\ Returned("post_event")
    /\ Len(Attempts) = 1
    /\ IsAnswerRequest(LastAttempt)
    /\ LastAttempt.status = 200
    /\ pure.response = EmptyResponse

(***************************************************************************)
(* C39  CatchAllExceptionHandler builds a client and makes no call on it:  *)
(* the client's state is None, no request is sent, and the text spoken is  *)
(* the text of the exception type's key, never a text of the hub's state.  *)
(***************************************************************************)
C39_ErrorFromTypeMap ==
    pure.handler = "CatchAllExceptionHandler" =>
        /\ pure.phase = "done"
        /\ jee_state = StateNone
        /\ ret.op = "none"
        /\ http = <<>>
        /\ pure.response.speech = get_text(ErrorKey(pure.exception), "")
        /\ pure.response.should_end_session = PyBool(TRUE)

C39_Witness ==
    /\ pure.handler = "CatchAllExceptionHandler"
    /\ pure.exception = "TimeoutError"
    /\ pure.phase = "done"
    /\ jee_state = StateNone
    /\ language_strings = NoStrings
    /\ pure.response.speech = PyStr("")

====
